---- MODULE Spec2Model ----
(***************************************************************************)
(* Model of the ai-newsletter pipeline of content-workflow:                *)
(*   collectors/hn.cjs      fetchTopStories  (file cache, 30 minutes)      *)
(*   collectors/github.cjs  fetchTrendingAI  (in-memory cache, 4 hours)    *)
(*   aggregator.js          aggregate, calculateAIScore,                   *)
(*                          calculateImportance                            *)
(*   scheduler.js           startScheduler and the daily cron callback     *)
(*                                                                         *)
(* Strings are sequences of one-character strings, so that toLowerCase,    *)
(* substring, includes and the URL host extraction are computed.           *)
(* Numbers with a fractional part are scaled to integers:                  *)
(*   aiScore     is held times 2      (keyword weights 1, 1.5, 2)          *)
(*   importance  is held times 10000  (type weights 1.2, 1.3; boost 1.5)   *)
(* Scaling by a positive constant keeps every comparison the code makes    *)
(* (> 0, === 0, the sign of b.importance - a.importance).                  *)
(***************************************************************************)
EXTENDS Integers, Sequences, FiniteSets, TLC

VARIABLES
    now,          \* Date.now(), in milliseconds since the epoch of the model
    elapsed,      \* number of clock advances taken (bounds the clock)
    hnFile,       \* collectors/data/hn-cache.json
    ghCache,      \* github.cjs: let cache
    ghLastFetch,  \* github.cjs: let lastFetch
    combined,     \* data/combined.json
    agg,          \* per caller: its aggregate() invocation
    run,          \* scheduler: per trigger, position of its callback
    started,      \* scheduler: startScheduler has been called, the process lives
    axFile,       \* collectors/data/arxiv-cache.json
    fetch,        \* a call of one collector made directly by a client
    briefing,     \* a call of generateBriefing made by a client
    article       \* article-generator: the call of generateArticle

vars == <<now, elapsed, hnFile, ghCache, ghLastFetch, axFile, combined, agg, run,
          started, fetch, briefing, article>>

-----------------------------------------------------------------------------
(* Bounds of the exploration *)

MaxElapsed == 2
MaxCron == 1

-----------------------------------------------------------------------------
(* Characters and strings *)

Uppers == <<"A","B","C","D","E","F","G","H","I","J","K","L","M",
            "N","O","P","Q","R","S","T","U","V","W","X","Y","Z">>
Lowers == <<"a","b","c","d","e","f","g","h","i","j","k","l","m",
            "n","o","p","q","r","s","t","u","v","w","x","y","z">>

LowerOf == [c \in {Uppers[i] : i \in 1..Len(Uppers)} |->
               Lowers[CHOOSE i \in 1..Len(Uppers) : Uppers[i] = c]]

LowerChar(c) == IF c \in DOMAIN LowerOf THEN LowerOf[c] ELSE c

\* String.prototype.toLowerCase
ToLowerCase(s) == [i \in 1..Len(s) |-> LowerChar(s[i])]

\* String.prototype.substring(0, n) and Array.prototype.slice(0, n)
Slice(s, n) == SubSeq(s, 1, IF n < Len(s) THEN n ELSE Len(s))

\* String.prototype.includes
OccursAt(s, w, i) == \A j \in 1..Len(w) : s[i + j - 1] = w[j]

Includes(s, w) == \E i \in 1..(Len(s) - Len(w) + 1) : OccursAt(s, w, i)

\* first index at which w occurs in s, 0 when it does not (indexOf + 1)
IndexOf(s, w) ==
    IF Includes(s, w)
    THEN CHOOSE i \in 1..(Len(s) - Len(w) + 1) :
            /\ OccursAt(s, w, i)
            /\ \A j \in 1..(i - 1) : ~OccursAt(s, w, j)
    ELSE 0

\* String.prototype.replace(w, '') : the first occurrence only
ReplaceFirst(s, w) ==
    LET i == IndexOf(s, w)
    IN  IF i = 0 THEN s ELSE SubSeq(s, 1, i - 1) \o SubSeq(s, i + Len(w), Len(s))

SchemeHttps == <<"h","t","t","p","s",":","/","/">>
SchemeHttp  == <<"h","t","t","p",":","/","/">>
Www         == <<"w","w","w",".">>
Space       == <<" ">>
Slash       == <<"/">>

\* new URL(u) throws unless u is absolute; the payloads carry http(s) URLs only
SchemeLen(u) ==
    IF Slice(u, Len(SchemeHttps)) = SchemeHttps THEN Len(SchemeHttps)
    ELSE IF Slice(u, Len(SchemeHttp)) = SchemeHttp THEN Len(SchemeHttp)
    ELSE 0

UrlValid(u) == SchemeLen(u) > 0 /\ Len(u) > SchemeLen(u)

\* new URL(u).hostname : the authority up to the first "/", lower-cased
Hostname(u) ==
    LET rest == SubSeq(u, SchemeLen(u) + 1, Len(u))
        cut  == IndexOf(rest, Slash)
    IN  ToLowerCase(IF cut = 0 THEN rest ELSE SubSeq(rest, 1, cut - 1))

\* new URL(s.url).hostname.replace('www.', '')
Domain(u) == ReplaceFirst(Hostname(u), Www)

-----------------------------------------------------------------------------
(* aggregator.js : scoring *)

\* AI_KEYWORDS; weight2 is the weight times 2
AI_KEYWORDS == <<
    [word |-> <<"a","i">>, weight2 |-> 2],
    [word |-> <<"l","l","m">>, weight2 |-> 4],
    [word |-> <<"g","p","t">>, weight2 |-> 4],
    [word |-> <<"c","l","a","u","d","e">>, weight2 |-> 4],
    [word |-> <<"a","g","e","n","t">>, weight2 |-> 4],
    [word |-> <<"m","a","c","h","i","n","e"," ","l","e","a","r","n","i","n","g">>, weight2 |-> 3],
    [word |-> <<"n","e","u","r","a","l">>, weight2 |-> 3],
    [word |-> <<"d","e","e","p"," ","l","e","a","r","n","i","n","g">>, weight2 |-> 3],
    [word |-> <<"a","u","t","o","m","a","t","i","o","n">>, weight2 |-> 2],
    [word |-> <<"g","e","n","e","r","a","t","i","v","e">>, weight2 |-> 3],
    [word |-> <<"c","o","p","i","l","o","t">>, weight2 |-> 2],
    [word |-> <<"l","a","n","g","c","h","a","i","n">>, weight2 |-> 4],
    [word |-> <<"r","a","g">>, weight2 |-> 4],
    [word |-> <<"v","e","c","t","o","r">>, weight2 |-> 3],
    [word |-> <<"e","m","b","e","d","d","i","n","g">>, weight2 |-> 4] >>

RECURSIVE KeywordSum(_, _, _)
KeywordSum(lower, kws, i) ==
    IF i > Len(kws) THEN 0
    ELSE (IF Includes(lower, kws[i].word) THEN kws[i].weight2 ELSE 0)
         + KeywordSum(lower, kws, i + 1)

\* aggregator.js calculateAIScore(text), times 2
calculateAIScore(text) == KeywordSum(ToLowerCase(text), AI_KEYWORDS, 1)

Has(item, f) == f \in DOMAIN item

\* typeWeight = { hn: 1.2, github: 1.3 }, times 100; typeWeight[type] || 1
TypeWeight100(type) ==
    IF type = "hn" THEN 120 ELSE IF type = "github" THEN 130 ELSE 100

\* if (item.aiScore > 0) score *= 1.5, times 100
Boost100(item) == IF Has(item, "aiScore") /\ item.aiScore > 0 THEN 150 ELSE 100

\* aggregator.js calculateImportance(item), times 10000 : item.score || 0
calculateImportance(item) ==
    (IF Has(item, "score") THEN item.score ELSE 0)
        * TypeWeight100(item.type) * Boost100(item)

\* { ...item, <upd> } : object spread followed by own properties
Spread(item, upd) ==
    [f \in (DOMAIN item) \cup (DOMAIN upd) |->
        IF f \in DOMAIN upd THEN upd[f] ELSE item[f]]

-----------------------------------------------------------------------------
(* collectors/github.cjs : scoring of a repository *)

GH_KEYWORDS == <<
    <<"a","i">>,
    <<"l","l","m">>,
    <<"g","p","t">>,
    <<"c","l","a","u","d","e">>,
    <<"a","g","e","n","t">>,
    <<"m","a","c","h","i","n","e"," ","l","e","a","r","n","i","n","g">>,
    <<"n","e","u","r","a","l">>,
    <<"d","e","e","p"," ","l","e","a","r","n","i","n","g">>,
    <<"l","a","n","g","c","h","a","i","n">>,
    <<"r","a","g">>,
    <<"c","o","p","i","l","o","t">>,
    <<"a","u","t","o","m","a","t","i","o","n">>,
    <<"g","e","n","e","r","a","t","i","v","e">>,
    <<"v","e","c","t","o","r">>,
    <<"e","m","b","e","d","d","i","n","g">>,
    <<"p","y","t","h","o","n">>,
    <<"r","a","g">>,
    <<"r","e","t","r","i","e","v","a","l">>,
    <<"f","i","n","e","-","t","u","n","i","n","g">>,
    <<"t","r","a","i","n","i","n","g">> >>

RECURSIVE GhKeywordCount(_, _)
GhKeywordCount(lower, i) ==
    IF i > Len(GH_KEYWORDS) THEN 0
    ELSE (IF Includes(lower, GH_KEYWORDS[i]) THEN 1 ELSE 0)
         + GhKeywordCount(lower, i + 1)

\* github.cjs calculateAIScore(text) : one point per listed keyword
GhCalculateAIScore(text) == GhKeywordCount(ToLowerCase(text), 1)

MinuteMs == 60 * 1000
DayMinutes == 24 * 60

\* github.cjs calculateImportance(repo), times 10, the age bonus rounded down:
\* stars * 0.5 + forks * 0.3, plus 50 / (age + 1) when age < 7 days
GhCalculateImportance(repo, t) ==
    LET ageMin == (t - repo.created) \div MinuteMs
    IN  repo.stars * 5 + repo.forks * 3
        + (IF ageMin < 7 * DayMinutes
           THEN (500 * DayMinutes) \div (ageMin + DayMinutes) ELSE 0)

-----------------------------------------------------------------------------
(* What the external services can answer *)

HourMs == 60 * MinuteMs

T_GPT5   == <<"G","P","T","-","5"," ","R","e","l","e","a","s","e","d">>
T_gpt5sp == <<"g","p","t","-","5"," ","r","e","l","e","a","s","e","d"," ">>
T_Rust   == <<"R","u","s","t"," ","2",".","0">>
T_rust   == <<"r","u","s","t"," ","2",".","0">>
T_Zig    == <<"Z","i","g"," ","1",".","0">>
U_openai  == <<"h","t","t","p","s",":","/","/","o","p","e","n","a","i",".","c","o","m","/","g","p","t","-","5">>
U_rust    == <<"h","t","t","p","s",":","/","/","w","w","w",".","r","u","s","t","-","l","a","n","g",".","o","r","g","/">>
U_example == <<"h","t","t","p","s",":","/","/","e","x","a","m","p","l","e",".","c","o","m","/","a">>
U_lwn     == <<"h","t","t","p",":","/","/","l","w","n",".","n","e","t","/","r">>
U_bad     == <<"n","o","t"," ","a"," ","u","r","l">>

\* Hacker News items as the item endpoint returns them ({id, title, url, score})
S_gpt5   == [id |-> 1, title |-> T_GPT5,   url |-> U_openai,  score |-> 1]
S_rust   == [id |-> 2, title |-> T_Rust,   url |-> U_rust,    score |-> 1000]
S_gpt5sp == [id |-> 3, title |-> T_gpt5sp, url |-> U_example, score |-> 7]
S_rust2  == [id |-> 4, title |-> T_rust,   url |-> U_lwn,     score |-> 2000]
S_ask    == [id |-> 5, title |-> T_Zig,    url |-> <<>>,      score |-> 40]
S_badurl == [id |-> 6, title |-> T_Zig,    url |-> U_bad,     score |-> 9]
S_zig    == [id |-> 7, title |-> T_Zig,    url |-> U_example, score |-> 40]
\* an item request that failed: the inner catch returns null
NullStory == [null |-> TRUE]

\* Answers of the Hacker News API to one fetchTopStories: the request for the
\* ids throws ("throw"), or the stories of the first ids arrive ("ok"), each
\* a story or null.
HnAnswersFull == {
    [kind |-> "throw", stories |-> <<>>],
    [kind |-> "ok", stories |-> <<>>],
    [kind |-> "ok", stories |-> <<NullStory, S_ask>>],
    [kind |-> "ok", stories |-> <<S_badurl>>],
    [kind |-> "ok", stories |-> <<S_gpt5, S_rust>>],
    [kind |-> "ok", stories |-> <<S_rust, S_rust2, S_gpt5, S_zig>>],
    [kind |-> "ok", stories |-> <<S_gpt5, S_gpt5sp>>] }

D_llm  == <<"L","L","M"," ","a","g","e","n","t">>
D_fast == <<"F","a","s","t">>
L_py   == <<"P","y","t","h","o","n">>
L_rust == <<"R","u","s","t">>
O_openai == <<"o","p","e","n","a","i">>
O_rust   == <<"r","u","s","t","-","l","a","n","g">>
N_gpt    == <<"g","p","t">>
N_rust   == <<"r","u","s","t">>

\* repositories as the search API returns them; created_at is 8 days before the
\* model's epoch
R_gpt  == [owner |-> O_openai, name |-> N_gpt, description |-> D_llm,
           language |-> L_py, stars |-> 500, forks |-> 20, created |-> 0 - 8 * 24 * HourMs]
R_rust == [owner |-> O_rust, name |-> N_rust, description |-> D_fast,
           language |-> L_rust, stars |-> 9000, forks |-> 100, created |-> 0 - 8 * 24 * HourMs]

\* Answers of the GitHub search API to one fetchTrendingAI: the request errors
\* ("error"), the body does not parse ("garbage"), the body is a JSON object
\* without items such as the rate-limit message ("noitems"), or a result page.
GhAnswersFull == {
    [kind |-> "error", repos |-> <<>>],
    [kind |-> "garbage", repos |-> <<>>],
    [kind |-> "noitems", repos |-> <<>>],
    [kind |-> "ok", repos |-> <<R_rust>>],
    [kind |-> "ok", repos |-> <<R_gpt, R_rust>>] }

-----------------------------------------------------------------------------
(* collectors/hn.cjs *)

Null == -1

HN_CACHE_DURATION == 30 * 60 * 1000

NoFile == [exists |-> FALSE, items |-> <<>>, lastFetch |-> Null]

\* loadCache() : the parsed file, or { items: [], lastFetch: null }
LoadCache(file) == [items |-> file.items, lastFetch |-> file.lastFetch]

\* ToNumber(null) is 0 in now - cache.lastFetch
Num(x) == IF x = Null THEN 0 ELSE x

\* variant of HnCacheValid: the window test alone
HnCacheValidAnyMut(cache, t) == (t - Num(cache.lastFetch)) < HN_CACHE_DURATION

\* variant of HnCacheValid: the window test turned around
HnCacheValidMut(cache, t) ==
    Len(cache.items) > 0 /\ (t - Num(cache.lastFetch)) > HN_CACHE_DURATION

\* cache.items && cache.items.length > 0 && (now - cache.lastFetch) < CACHE_DURATION
HnCacheValid(cache, t) ==
    Len(cache.items) > 0 /\ (t - Num(cache.lastFetch)) < HN_CACHE_DURATION

\* .filter(s => s && s.url)
HnKeep(s) == s # NullStory /\ s.url # <<>>

\* .map(s => ({ id, type, title, url, domain, score, ..., text }))
HnItem(s) ==
    [id |-> <<"hn", s.id>>, type |-> "hn", title |-> s.title, url |-> s.url,
     domain |-> Domain(s.url), score |-> s.score, text |-> s.title]

\* the body of the try block after the requests: the formatted items, or a
\* throw when new URL() rejects a story's url
HnFormat(stories, limit) ==
    LET kept == SelectSeq(Slice(stories, limit), HnKeep)
    IN  IF \E i \in 1..Len(kept) : ~UrlValid(kept[i].url)
        THEN [threw |-> TRUE, items |-> <<>>]
        ELSE [threw |-> FALSE, items |-> [i \in 1..Len(kept) |-> HnItem(kept[i])]]

\* variant of HnRejects: a failed fetch with nothing cached rethrows
HnRejectsMut(cache) == cache.items = <<>>

\* whether fetchTopStories rejects after a failed fetch: the catch block
\* returns cache.items || [] and never rethrows
HnRejects(cache) == FALSE

\* the cache file after a call served from it: loadCache only reads
HnFileAfterHit(file) == file

\* variant of HnAfterFetch: the new items are appended to the cached ones
HnAfterFetchMut(file, cache, t, answer, limit) ==
    LET f == HnFormat(answer.stories, limit)
    IN  IF answer.kind = "throw" \/ f.threw
        THEN [ret |-> cache.items, file |-> file, failed |-> TRUE,
              rejected |-> HnRejects(cache)]
        ELSE [ret |-> f.items,
              file |-> [exists |-> TRUE, items |-> cache.items \o f.items,
                        lastFetch |-> t],
              failed |-> FALSE, rejected |-> FALSE]

\* fetchTopStories after the cache check missed: what it returns and what it
\* leaves in the cache file. cache and t are the locals read at the call.
HnAfterFetch(file, cache, t, answer, limit) ==
    LET f == HnFormat(answer.stories, limit)
    IN  IF answer.kind = "throw" \/ f.threw
        THEN [ret |-> cache.items, file |-> file, failed |-> TRUE,
              rejected |-> HnRejects(cache)]
        ELSE [ret |-> f.items,
              file |-> [exists |-> TRUE, items |-> f.items, lastFetch |-> t],
              failed |-> FALSE, rejected |-> FALSE]

-----------------------------------------------------------------------------
(* collectors/github.cjs *)

GH_CACHE_DURATION == 4 * 60 * 60 * 1000

\* cache && (now - lastFetch) < CACHE_DURATION ; cache is null or an array
GhCacheValid(cache, last, t) == cache.set /\ (t - last) < GH_CACHE_DURATION

GhPrefix == <<"g","h","-">>
Dash == <<"-">>

\* (result.items || []).map(repo => ({ ... })) ; t is Date.now() at the mapping
GhItem(repo, t) ==
    LET full == repo.owner \o Slash \o repo.name
    IN  [id |-> GhPrefix \o repo.owner \o Dash \o repo.name,
         type |-> "github",
         title |-> full,
         description |-> repo.description,
         language |-> repo.language,
         stars |-> repo.stars,
         forks |-> repo.forks,
         text |-> ToLowerCase(full \o Space \o repo.description \o Space \o repo.language),
         aiScore |-> GhCalculateAIScore(repo.description \o Space \o repo.language),
         importance |-> GhCalculateImportance(repo, t)]

\* whether the promise of fetchTrendingAI rejects after a failed request:
\* both handlers call resolve([]), reject is never called
GhRejects(cache) == FALSE

\* what a failed request resolves to: resolve([]), whatever the cache holds
GhFailureValue(cache, limit) == <<>>

\* variant of GhCacheAfterHit: splice(0, limit) in place of slice(0, limit)
GhCacheAfterHitMut(cache, limit) ==
    [cache EXCEPT !.items = SubSeq(@, limit + 1, Len(@))]

\* the cache after a call served from it: cache.slice(0, limit) copies
GhCacheAfterHit(cache, limit) == cache

\* fetchTrendingAI after the cache check missed: what the promise resolves to
\* and what is left in cache / lastFetch. t0 is the local now of the call, t
\* the clock when the response ends. The status code is not looked at: a
\* body without items (the rate-limit message) maps to no repositories.
GhAfterFetch(cache, last, t0, t, answer, limit) ==
    IF answer.kind \in {"error", "garbage"}
    THEN [ret |-> GhFailureValue(cache, limit), cache |-> cache, last |-> last,
          failed |-> TRUE, rejected |-> GhRejects(cache)]
    ELSE LET repos == [i \in 1..Len(answer.repos) |-> GhItem(answer.repos[i], t)]
         IN  [ret |-> Slice(repos, limit),
              cache |-> [set |-> TRUE, items |-> repos],
              last |-> t0,
              failed |-> answer.kind # "ok", rejected |-> FALSE]

-----------------------------------------------------------------------------
(* aggregator.js : aggregate after both fetches have settled *)

HN_FETCH_LIMIT == 30
GH_FETCH_LIMIT == 10
TITLE_KEY_LEN == 60

Undefined == <<"u","n","d","e","f","i","n","e","d">>

\* item[f] inside a string concatenation: a missing property reads "undefined"
Str(item, f) == IF Has(item, f) THEN item[f] ELSE Undefined

\* ...hnItems.map(item => ({ ...item, type: 'hn', text: item.title + ' ' + item.domain }))
HnTag(item) ==
    Spread(item, [type |-> "hn", text |-> item.title \o Space \o Str(item, "domain")])

GithubDomain == <<"g","i","t","h","u","b",".","c","o","m">>

\* ...githubItems.map(item => ({ ...item, type: 'github', domain: 'github.com',
\*                              text: item.title + ' ' + item.description }))
GhTag(item) ==
    Spread(item, [type |-> "github", domain |-> GithubDomain,
                  text |-> item.title \o Space \o Str(item, "description")])

\* const allItems = [ ...hnItems.map(..), ...githubItems.map(..) ]
MergeSources(hnItems, githubItems) ==
    [i \in 1..Len(hnItems) |-> HnTag(hnItems[i])]
        \o [i \in 1..Len(githubItems) |-> GhTag(githubItems[i])]

\* allItems.map(item => ({ ...item, aiScore: calculateAIScore(item.text),
\*                         importance: calculateImportance(item) }))
ScoreItem(item) ==
    Spread(item, [aiScore |-> calculateAIScore(item.text),
                  importance |-> calculateImportance(item)])

ScoreItems(allItems) == [i \in 1..Len(allItems) |-> ScoreItem(allItems[i])]

\* variant of Compare: by importance only
CompareMut(a, b) == b.importance - a.importance

\* the comparator handed to scoredItems.sort : negative when a goes first
Compare(a, b) ==
    IF a.aiScore > 0 /\ b.aiScore = 0 THEN 0 - 1
    ELSE IF a.aiScore = 0 /\ b.aiScore > 0 THEN 1
    ELSE b.importance - a.importance

\* Array.prototype.sort is stable: x goes before the first element it must precede
RECURSIVE InsertSorted(_, _)
InsertSorted(x, s) ==
    IF s = <<>> THEN <<x>>
    ELSE IF Compare(x, Head(s)) < 0 THEN <<x>> \o s
    ELSE <<Head(s)>> \o InsertSorted(x, Tail(s))

RECURSIVE SortFrom(_, _, _)
SortFrom(items, i, acc) ==
    IF i > Len(items) THEN acc
    ELSE SortFrom(items, i + 1, InsertSorted(items[i], acc))

SortItems(items) == SortFrom(items, 1, <<>>)

\* variant of TitleKey: the title as it is written
TitleKeyMut(item) == Slice(item.title, TITLE_KEY_LEN)

\* item.title.toLowerCase().substring(0, 60)
TitleKey(item) == Slice(ToLowerCase(item.title), TITLE_KEY_LEN)

\* for (const item of scoredItems) if (!seenTitles.has(titleKey)) { add; push }
RECURSIVE Dedupe(_, _, _)
Dedupe(items, i, seenTitles) ==
    IF i > Len(items) THEN <<>>
    ELSE LET k == TitleKey(items[i])
         IN  IF k \in seenTitles
             THEN Dedupe(items, i + 1, seenTitles)
             ELSE <<items[i]>> \o Dedupe(items, i + 1, seenTitles \cup {k})

\* variant of UniqueItems: repeated title keys dropped before the sort
UniqueItemsMut(allItems) == SortItems(Dedupe(ScoreItems(allItems), 1, {}))

\* unique, as aggregate builds it: score, sort, then drop repeated title keys
UniqueItems(allItems) == Dedupe(SortItems(ScoreItems(allItems)), 1, {})

\* variant of AggregateResult: slice(0, limit) taken before the dedup loop
AggregateResultMut(allItems, limit) ==
    Dedupe(Slice(SortItems(ScoreItems(allItems)), limit), 1, {})

\* const result = unique.slice(0, limit)
AggregateResult(allItems, limit) == Slice(UniqueItems(allItems), limit)

IsHn(i) == i.type = "hn"
IsGithub(i) == i.type = "github"
IsAiRelated(i) == i.aiScore > 0

\* const stats = { total, hn, github, aiRelated }
Stats(result) ==
    [total |-> Len(result),
     hn |-> Len(SelectSeq(result, IsHn)),
     github |-> Len(SelectSeq(result, IsGithub)),
     aiRelated |-> Len(SelectSeq(result, IsAiRelated))]

-----------------------------------------------------------------------------
(* Callers of aggregate, and the state of one invocation *)

\* the scheduler's runs: 0 is the eager run of startScheduler, 1..MaxCron are
\* the firings of the cron callback; Direct is a caller of the exported
\* aggregate(limit) outside the scheduler (as the file's own self-test)
RunIds == 0..MaxCron
Direct == MaxCron + 1
Article == MaxCron + 2
Callers == RunIds \cup {Direct, Article}

\* one fetch of an invocation: t and cache are the locals now and cache of the
\* call, ret the value its promise resolved to, src where ret came from
\* ("cache": served from the cache, "net": fetched, "failed": the fetch failed)
NoFetch == [st |-> "none", t |-> 0, cache |-> LoadCache(NoFile), ret |-> <<>>,
            src |-> "none"]

Pending(cache, t) == [NoFetch EXCEPT !.st = "pending", !.t = t, !.cache = cache]

\* a fetch whose promise has settled (st "settled" or "rejected"); its locals
\* are gone
Settled(st, ret, src) == [NoFetch EXCEPT !.st = st, !.ret = ret, !.src = src]

\* an invocation: st is "idle", "waiting" (at await Promise.all), "done" or
\* "threw"; err says what threw ("fetch": a fetch promise rejected, "write":
\* writing combined.json failed); order is the order in which the promises
\* settled; again records that the caller's previous invocation had the same
\* limit and was served from both caches (history)
IdleAgg == [st |-> "idle", limit |-> 0, hn |-> NoFetch, gh |-> NoFetch,
            order |-> <<>>, results |-> <<<<>>, <<>>>>, result |-> <<>>,
            err |-> "none", again |-> FALSE]

\* an invocation that returned a list and took both sources from their caches
FromCache(a) == a.st = "done" /\ a.hn.src = "cache" /\ a.gh.src = "cache"

\* variant of PromiseAllSet: values placed in the order they arrive
PromiseAllSetMut(results, idx, value) ==
    IF results[1] = <<>> THEN [results EXCEPT ![1] = value]
    ELSE [results EXCEPT ![2] = value]

\* Promise.all places each value at the index of its promise
PromiseAllSet(results, idx, value) == [results EXCEPT ![idx] = value]

NoCombined == [exists |-> FALSE, items |-> <<>>]

AnyRejected(a) == a.hn.st = "rejected" \/ a.gh.st = "rejected"

\* variant of AllSettled: the first fulfilment is enough, as with Promise.any
AllSettledMut(a) == a.hn.st = "settled" \/ a.gh.st = "settled"

AllSettled(a) == a.hn.st = "settled" /\ a.gh.st = "settled"

\* aggregate from the merge to the return, once both promises have settled;
\* writeOk is whether fs.writeFileSync(COMBINED_FILE) succeeds
Finished(a, writeOk) ==
    IF writeOk
    THEN [a EXCEPT !.st = "done",
                   !.result = AggregateResult(
                                 MergeSources(a.results[1], a.results[2]), a.limit)]
    ELSE [a EXCEPT !.st = "threw", !.err = "write"]

\* variant of AggStats: the stats taken of the list before slice(0, limit)
AggStatsMut(a) == Stats(UniqueItems(MergeSources(a.results[1], a.results[2])))

\* the stats aggregate returns beside the items
AggStats(a) == Stats(a.result)

-----------------------------------------------------------------------------
(* aggregator.js : generateBriefing *)

BRIEFING_TOP == 3

\* variant of Highlights: slice(-3), the last three
HighlightsMut(list) ==
    SubSeq(list, IF Len(list) > BRIEFING_TOP THEN Len(list) - BRIEFING_TOP + 1 ELSE 1,
           Len(list))

\* byType.hn.slice(0, 3), byType.github.slice(0, 3)
Highlights(list) == Slice(list, BRIEFING_TOP)

\* generateBriefing(items) for an array items: the returned object (without
\* its two date strings) and the argument as the call leaves it; filter and
\* slice build new arrays
generateBriefing(items) ==
    LET byType == [hn |-> SelectSeq(items, IsHn), github |-> SelectSeq(items, IsGithub)]
    IN  [items |-> items,
         briefing |-> [summary |-> [total |-> Len(items),
                                    ai |-> Len(SelectSeq(items, IsAiRelated)),
                                    byType |-> byType],
                       topHN |-> Highlights(byType.hn),
                       topGitHub |-> Highlights(byType.github)]]

\* a client's call of generateBriefing: input is the array it passed, items
\* that array after the call, out the returned object
NoBriefing == [st |-> "none", input |-> <<>>, items |-> <<>>,
               out |-> generateBriefing(<<>>).briefing]

-----------------------------------------------------------------------------
(* article-generator : generateArticle *)

ARTICLE_LIMIT == 50
PROMPT_ITEMS == 15
PROMPT_TITLE_LEN == 80

\* variant of PromptLines: every aggregated item goes into the prompt
PromptLinesMut(items) ==
    [k \in 1..Len(items) |->
        [idx |-> k, title |-> Slice(items[k].title, PROMPT_TITLE_LEN)]]

\* items.slice(0, 15).map((i, idx) => `${idx+1}. ${i.title.substring(0, 80)}`)
PromptLines(items) ==
    [k \in 1..Len(Slice(items, PROMPT_ITEMS)) |->
        [idx |-> k, title |-> Slice(items[k].title, PROMPT_TITLE_LEN)]]

\* the call of generateArticle: pc is "none", "aggregating" (at await
\* aggregate(50)), "generating" (at await callGemini), "returned" or
\* "rejected"; prompt is the news list put into the prompt, content what
\* callGemini came back with, ret what the call returned ("null" or
\* "article"), file the day's articles/<date>-analysis.md: whether it exists
\* and the news list its text was generated from
NoArticleFile == [exists |-> FALSE, from |-> <<>>]

NoArticle == [pc |-> "none", prompt |-> <<>>, content |-> "none", ret |-> "none",
              file |-> NoArticleFile]

\* variant of ContentOk: no test of the content
ContentOkMut(answer) == TRUE

\* if (!content) return null : null and the empty string stop the call
ContentOk(answer) == answer = "text"

\* generateArticle from `await aggregate(50)` to `await callGemini(prompt, 3000)`
\* once its invocation of aggregate stands as `a`; aggregate's rejection is
\* not caught
ArticleStep(art, a) ==
    IF a.st = "done"
    THEN [art EXCEPT !.pc = "generating", !.prompt = PromptLines(a.result),
                     !.content = "none", !.ret = "none"]
    ELSE IF a.st = "threw"
    THEN [art EXCEPT !.pc = "rejected", !.prompt = <<>>, !.content = "none",
                     !.ret = "none"]
    ELSE [art EXCEPT !.pc = "aggregating", !.prompt = <<>>, !.content = "none",
                     !.ret = "none"]

\* generateTodayBriefing after `await aggregate(20)`: aggregate resolves to the
\* object { items, stats }, and generateBriefing calls .filter on its argument,
\* which only an array has; the TypeError is logged and rethrown
AggregateReturnIsArray == FALSE
GenerateBriefingThrows == ~AggregateReturnIsArray

\* variant of RunAfterAggregate: the article step chained with finally, which
\* runs after a rejection too
RunAfterAggregateMut(r, a) ==
    [r EXCEPT !.pc = "article", !.wrote = ~(a.st = "threw" \/ GenerateBriefingThrows)]

\* where the run of a trigger stands once its aggregate(20) has ended as `a`:
\* `await generateTodayBriefing(); await generateTodayArticle()` in the cron
\* callback and generateTodayBriefing().then(() => generateTodayArticle()) in
\* startScheduler reach the article step only when the briefing step fulfils
RunAfterAggregate(r, a) ==
    IF a.st = "threw" \/ GenerateBriefingThrows
    THEN [r EXCEPT !.pc = "rejected"]
    ELSE [r EXCEPT !.pc = "article", !.wrote = TRUE]

\* variant of CacheAfterMerge: type, domain and text assigned to the items
\* themselves, as with Object.assign(item, ...)
CacheAfterMergeMut(cache, githubItems) ==
    [cache EXCEPT !.items =
        [i \in 1..Len(@) |->
            IF \E k \in 1..Len(githubItems) : githubItems[k] = @[i]
            THEN GhTag(@[i]) ELSE @[i]]]

\* the GitHub cache once aggregate has merged and scored githubItems, an array
\* holding the cache's own objects: ({ ...item, ... }) builds a new object for
\* each, and sort and the dedup loop work on the new array
CacheAfterMerge(cache, githubItems) == cache

\* the part of every step that settles a promise of invocation a of caller p:
\* Promise.all rejects with the first rejection and aggregate has no catch;
\* when both have settled the continuation of aggregate runs in the same turn;
\* gh is the GitHub cache as the step has left it so far
Conclude(p, a, runNow, gh) ==
    IF AnyRejected(a) \/ AllSettled(a)
    THEN \E writeOk \in BOOLEAN :
            /\ ghCache' = IF AnyRejected(a) THEN gh
                           ELSE CacheAfterMerge(gh, a.results[2])
            /\ agg' = [agg EXCEPT ![p] =
                          IF AnyRejected(a)
                          THEN [a EXCEPT !.st = "threw", !.err = "fetch"]
                          ELSE Finished(a, writeOk)]
            /\ combined' = IF agg'[p].st = "done"
                           THEN [exists |-> TRUE, items |-> agg'[p].result]
                           ELSE combined
            /\ run' = IF p \in RunIds
                      THEN [runNow EXCEPT ![p] = RunAfterAggregate(@, agg'[p])]
                      ELSE runNow
            /\ article' = IF p = Article THEN ArticleStep(article, agg'[p])
                          ELSE article
    ELSE /\ ghCache' = gh
         /\ agg' = [agg EXCEPT ![p] = a]
         /\ combined' = combined
         /\ run' = runNow
         /\ article' = IF p = Article THEN ArticleStep(article, a) ELSE article

\* aggregate(limit) up to its await: both fetch functions run to their first
\* await, fetchTopStories first
CallAggregate(p, limit, runNow) ==
    LET cache == LoadCache(hnFile)
        hnHit == HnCacheValid(cache, now)
        ghHit == GhCacheValid(ghCache, ghLastFetch, now)
        hnRet == Slice(cache.items, HN_FETCH_LIMIT)
        ghRet == Slice(ghCache.items, GH_FETCH_LIMIT)
        a0 == [IdleAgg EXCEPT
                 !.st = "waiting", !.limit = limit,
                 !.again = (FromCache(agg[p]) /\ agg[p].limit = limit),
                 !.hn = IF hnHit THEN Settled("settled", hnRet, "cache")
                        ELSE Pending(cache, now),
                 !.gh = IF ghHit THEN Settled("settled", ghRet, "cache")
                        ELSE Pending(NoFetch.cache, now),
                 !.order = (IF hnHit THEN <<"hn">> ELSE <<>>)
                              \o (IF ghHit THEN <<"gh">> ELSE <<>>),
                 !.results = <<IF hnHit THEN hnRet ELSE <<>>,
                               IF ghHit THEN ghRet ELSE <<>>>>]
    IN  /\ hnFile' = IF hnHit THEN HnFileAfterHit(hnFile) ELSE hnFile
        /\ Conclude(p, a0, runNow,
                    IF ghHit THEN GhCacheAfterHit(ghCache, GH_FETCH_LIMIT)
                    ELSE ghCache)

-----------------------------------------------------------------------------
(* Actions *)

AdvanceSteps == {20 * MinuteMs, 4 * HourMs}

\* time passes
Advance(d) ==
    /\ elapsed < MaxElapsed
    /\ elapsed' = elapsed + 1
    /\ now' = now + d
    /\ UNCHANGED <<hnFile, ghCache, ghLastFetch, combined, agg, run, started, axFile, fetch, briefing, article>>

\* a caller outside the scheduler calls aggregate(limit)
DirectCall(limit) ==
    /\ agg[Direct].st # "waiting"
    /\ CallAggregate(Direct, limit, run)
    /\ UNCHANGED <<now, elapsed, ghLastFetch, started, axFile, fetch, briefing>>

\* the Hacker News requests of caller p end with `answer`
HnRespond(p, answer) ==
    /\ started.alive
    /\ agg[p].st = "waiting"
    /\ agg[p].hn.st = "pending"
    /\ LET r == HnAfterFetch(hnFile, agg[p].hn.cache, agg[p].hn.t, answer,
                             HN_FETCH_LIMIT)
       IN  /\ hnFile' = r.file
           /\ Conclude(p, [agg[p] EXCEPT
                             !.hn = Settled(IF r.rejected THEN "rejected" ELSE "settled",
                                            r.ret, IF r.failed THEN "failed" ELSE "net"),
                             !.results = PromiseAllSet(@, 1, r.ret),
                             !.order = Append(@, "hn")],
                       run, ghCache)
    /\ UNCHANGED <<now, elapsed, ghLastFetch, started, axFile, fetch, briefing>>

\* the GitHub request of caller p ends with `answer`
GhRespond(p, answer) ==
    /\ started.alive
    /\ agg[p].st = "waiting"
    /\ agg[p].gh.st = "pending"
    /\ LET r == GhAfterFetch(ghCache, ghLastFetch, agg[p].gh.t, now, answer,
                             GH_FETCH_LIMIT)
       IN  /\ ghLastFetch' = r.last
           /\ Conclude(p, [agg[p] EXCEPT
                             !.gh = Settled(IF r.rejected THEN "rejected" ELSE "settled",
                                            r.ret, IF r.failed THEN "failed" ELSE "net"),
                             !.results = PromiseAllSet(@, 2, r.ret),
                             !.order = Append(@, "gh")],
                       run, r.cache)
    /\ UNCHANGED <<now, elapsed, hnFile, started, axFile, fetch, briefing>>

SCHED_LIMIT == 20

NoRun == [pc |-> "none", firedAt |-> 0, wrote |-> FALSE]

\* startScheduler(): registers the cron callback and starts the eager run
\* generateTodayBriefing().then(...)
StartScheduler ==
    /\ ~started.on
    /\ started' = [started EXCEPT !.on = TRUE]
    /\ CallAggregate(0, SCHED_LIMIT,
                     [run EXCEPT ![0] = [NoRun EXCEPT !.pc = "briefing", !.firedAt = now]])
    /\ UNCHANGED <<now, elapsed, ghLastFetch, axFile, fetch, briefing>>

DayMs == 24 * HourMs

\* variant of TriggerTime: the callback may fire at any time of day
TriggerTimeMut(t) == TRUE

\* cron.schedule('0 8 * * *', ...) : the moments at which node-cron calls the
\* callback, minute 0 of hour 8 of every day
TriggerTime(t) == t % DayMs = 8 * HourMs

\* the cron callback of '0 8 * * *' fires for the r-th time: it awaits
\* generateTodayBriefing() whatever the earlier runs are doing
CronFire(r) ==
    /\ started.on /\ started.alive
    /\ TriggerTime(now)
    /\ r >= 1
    /\ run[r].pc = "none"
    /\ (r > 1) => (run[r - 1].pc # "none" /\ now >= run[r - 1].firedAt + 24 * HourMs)
    /\ CallAggregate(r, SCHED_LIMIT,
                     [run EXCEPT ![r] = [NoRun EXCEPT !.pc = "briefing", !.firedAt = now]])
    /\ UNCHANGED <<now, elapsed, ghLastFetch, started, axFile, fetch, briefing>>

\* a rejected run is an unhandled rejection (neither the cron callback nor
\* main catch it); whether that ends the process depends on the Node.js
\* version, fixed in started.strict
ProcessExit ==
    /\ started.alive /\ started.strict
    /\ \E r \in RunIds : run[r].pc = "rejected"
    /\ started' = [started EXCEPT !.alive = FALSE]
    /\ UNCHANGED <<now, elapsed, hnFile, ghCache, ghLastFetch, combined, agg, run, axFile, fetch, briefing, article>>

-----------------------------------------------------------------------------
(* collectors/arxiv.cjs *)

AX_WINDOW == 21600000
AX_CATEGORIES == 4

\* cache.lastFetch && (now - cache.lastFetch) < 21600000
AxCacheValid(cache, t) ==
    cache.lastFetch # Null /\ cache.lastFetch # 0 /\ (t - cache.lastFetch) < AX_WINDOW

\* results.flat() : what each fetchCategory(cat, limit) returned, in the order
\* of CATEGORIES; a category whose request failed returned []. The API is
\* asked for max_results: limit entries of each category.
AxFlat(cats, limit) ==
    LET items(c) == [k \in 1..Len(Slice(cats[c], limit)) |->
                        [id |-> cats[c][k].id, published |-> cats[c][k].published,
                         category |-> c]]
    IN  items(1) \o items(2) \o items(3) \o items(4)

\* allItems.sort((a, b) => new Date(b.published) - new Date(a.published)), stable
RECURSIVE AxInsert(_, _)
AxInsert(x, s) ==
    IF s = <<>> THEN <<x>>
    ELSE IF Head(s).published - x.published < 0 THEN <<x>> \o s
    ELSE <<Head(s)>> \o AxInsert(x, Tail(s))

RECURSIVE AxSort(_)
AxSort(items) ==
    IF items = <<>> THEN <<>>
    ELSE AxInsert(items[Len(items)], AxSort(SubSeq(items, 1, Len(items) - 1)))

\* for (const item of allItems) if (!seen.has(item.id)) { add; push }
RECURSIVE AxUnique(_, _, _)
AxUnique(items, i, seen) ==
    IF i > Len(items) THEN <<>>
    ELSE IF items[i].id \in seen THEN AxUnique(items, i + 1, seen)
    ELSE <<items[i]>> \o AxUnique(items, i + 1, seen \cup {items[i].id})

\* fetchArxiv after the cache check missed. Nothing in the try block throws
\* but saveCache (answer.kind "savefail"), and by then cache.items already is
\* the new list, which the catch block slices and returns.
AxAfterFetch(file, t, answer, limit) ==
    LET uniqueItems == AxUnique(AxSort(AxFlat(answer.cats, limit)), 1, {})
    IN  IF answer.kind = "savefail"
        THEN [ret |-> Slice(uniqueItems, limit * AX_CATEGORIES), file |-> file,
              failed |-> TRUE]
        ELSE [ret |-> uniqueItems,
              file |-> [exists |-> TRUE, items |-> uniqueItems, lastFetch |-> t],
              failed |-> FALSE]

\* Answers of the arXiv API to the four category requests of one fetchArxiv
AxAnswers == {
    [kind |-> "ok", cats |-> <<<<>>, <<>>, <<>>, <<>>>>],
    [kind |-> "ok",
     cats |-> << <<[id |-> 101, published |-> 3], [id |-> 102, published |-> 5]>>,
                 <<[id |-> 101, published |-> 3]>>, <<>>, <<>> >>],
    [kind |-> "savefail",
     cats |-> << <<[id |-> 101, published |-> 3]>>, <<>>, <<>>, <<>> >>] }

-----------------------------------------------------------------------------
(* A client calling one collector directly, and the process restarting *)

MaxRestart == 1

\* the call in flight or last made: kind is the collector ("hn", "gh", "ax"),
\* st "pending" while its request is out, limit its argument, t and cache the
\* locals now and cache of the call, ret what it returned, src where ret came
\* from ("cache", "net", "failed"); seq alternates from one call to the next;
\* replaced records that the call put its items in the place of a cache entry
\* that held other items (history)
NoCall == [kind |-> "none", st |-> "none", limit |-> 0, t |-> 0,
           cache |-> LoadCache(NoFile), ret |-> <<>>, src |-> "none", seq |-> 0,
           replaced |-> FALSE]

\* whether items fetched anew take the place of an entry with other items
Replaces(failed, oldItems, newItems) ==
    ~failed /\ oldItems # <<>> /\ oldItems # newItems

\* a call that ended; one that ended without a request is Served
Returns(kind, limit, st, ret, src) ==
    [NoCall EXCEPT !.kind = kind, !.limit = limit, !.st = st, !.ret = ret,
                   !.src = src, !.seq = fetch.seq]

Served(kind, limit, ret) ==
    [Returns(kind, limit, "settled", ret, "cache") EXCEPT !.seq = 1 - fetch.seq]

Requests(kind, limit, cache) ==
    [NoCall EXCEPT !.kind = kind, !.limit = limit, !.st = "pending", !.t = now,
                   !.cache = cache, !.seq = 1 - fetch.seq]

\* fetchTopStories(limit) up to its first await
fetchTopStories(limit) ==
    /\ fetch.st # "pending"
    /\ LET cache == LoadCache(hnFile)
       IN  IF HnCacheValid(cache, now)
           THEN /\ fetch' = Served("hn", limit, Slice(cache.items, limit))
                /\ hnFile' = HnFileAfterHit(hnFile)
           ELSE /\ fetch' = Requests("hn", limit, cache)
                /\ hnFile' = hnFile
    /\ UNCHANGED <<now, elapsed, ghCache, ghLastFetch, axFile, combined, agg, run,
                   started, briefing, article>>

\* the requests of the pending fetchTopStories end with `answer`
HnSettle(answer) ==
    /\ fetch.kind = "hn" /\ fetch.st = "pending"
    /\ LET r == HnAfterFetch(hnFile, fetch.cache, fetch.t, answer, fetch.limit)
       IN  /\ hnFile' = r.file
           /\ fetch' = [Returns("hn", fetch.limit,
                                IF r.rejected THEN "rejected" ELSE "settled",
                                r.ret, IF r.failed THEN "failed" ELSE "net")
                           EXCEPT !.replaced = Replaces(r.failed, hnFile.items, r.ret)]
    /\ UNCHANGED <<now, elapsed, ghCache, ghLastFetch, axFile, combined, agg, run,
                   started, briefing, article>>

\* fetchTrendingAI(limit) up to the https.get
fetchTrendingAI(limit) ==
    /\ fetch.st # "pending"
    /\ IF GhCacheValid(ghCache, ghLastFetch, now)
       THEN /\ fetch' = Served("gh", limit, Slice(ghCache.items, limit))
            /\ ghCache' = GhCacheAfterHit(ghCache, limit)
       ELSE /\ fetch' = Requests("gh", limit, NoCall.cache)
            /\ ghCache' = ghCache
    /\ UNCHANGED <<now, elapsed, hnFile, ghLastFetch, axFile, combined, agg, run,
                   started, briefing, article>>

\* the request of the pending fetchTrendingAI ends with `answer`; the search
\* API returns at most per_page = limit repositories
GhSettle(answer) ==
    /\ fetch.kind = "gh" /\ fetch.st = "pending"
    /\ LET r == GhAfterFetch(ghCache, ghLastFetch, fetch.t, now,
                             [answer EXCEPT !.repos = Slice(@, fetch.limit)],
                             fetch.limit)
       IN  /\ ghCache' = r.cache
           /\ ghLastFetch' = r.last
           /\ fetch' = [Returns("gh", fetch.limit,
                                IF r.rejected THEN "rejected" ELSE "settled",
                                r.ret, IF r.failed THEN "failed" ELSE "net")
                           EXCEPT !.replaced = Replaces(r.failed, ghCache.items, r.ret)]
    /\ UNCHANGED <<now, elapsed, hnFile, axFile, combined, agg, run, started, briefing, article>>

\* fetchArxiv(limitPerCat) up to its await
fetchArxiv(limitPerCat) ==
    /\ fetch.st # "pending"
    /\ LET cache == LoadCache(axFile)
       IN  IF AxCacheValid(cache, now)
           THEN fetch' = Served("ax", limitPerCat,
                                Slice(cache.items, limitPerCat * AX_CATEGORIES))
           ELSE fetch' = Requests("ax", limitPerCat, cache)
    /\ UNCHANGED <<now, elapsed, hnFile, ghCache, ghLastFetch, axFile, combined,
                   agg, run, started, briefing, article>>

\* the category requests of the pending fetchArxiv have all ended
AxSettle(answer) ==
    /\ fetch.kind = "ax" /\ fetch.st = "pending"
    /\ LET r == AxAfterFetch(axFile, fetch.t, answer, fetch.limit)
       IN  /\ axFile' = r.file
           /\ fetch' = [Returns("ax", fetch.limit, "settled", r.ret,
                                IF r.failed THEN "failed" ELSE "net")
                           EXCEPT !.replaced = Replaces(r.failed, axFile.items, r.ret)]
    /\ UNCHANGED <<now, elapsed, hnFile, ghCache, ghLastFetch, combined, agg, run,
                   started, briefing, article>>

\* the process ends and is started again: the module variables of github.cjs
\* are initialised anew and every call in flight is gone; the files stay
Restart ==
    /\ started.boots < MaxRestart
    /\ started' = [started EXCEPT !.on = FALSE, !.alive = TRUE, !.boots = @ + 1]
    /\ ghCache' = [set |-> FALSE, items |-> <<>>]
    /\ ghLastFetch' = 0
    /\ fetch' = NoCall
    /\ agg' = [p \in Callers |-> IdleAgg]
    /\ run' = [r \in RunIds |-> NoRun]
    /\ briefing' = NoBriefing
    /\ article' = [NoArticle EXCEPT !.file = article.file]
    /\ UNCHANGED <<now, elapsed, hnFile, axFile, combined>>

-----------------------------------------------------------------------------
(* Clients of the briefing builder and of the article generator *)

\* a client hands the list aggregate returned to it to generateBriefing
BuildBriefing ==
    /\ agg[Direct].st = "done"
    /\ LET g == generateBriefing(agg[Direct].result)
       IN  briefing' = [st |-> "built", input |-> agg[Direct].result,
                        items |-> g.items, out |-> g.briefing]
    /\ UNCHANGED <<now, elapsed, hnFile, ghCache, ghLastFetch, axFile, combined, agg,
                   run, started, fetch, article>>

\* generateArticle() up to its first await (the main of article-generator)
GenerateArticle ==
    /\ article.pc \notin {"aggregating", "generating"}
    /\ CallAggregate(Article, ARTICLE_LIMIT, run)
    /\ UNCHANGED <<now, elapsed, ghLastFetch, started, axFile, fetch, briefing>>

\* What callGemini can come back with: the text of choices[0].message.content
\* ("text"), an empty content ("empty"), or null after a caught error, the
\* timeout of 120 ms included ("error")
GeminiAnswers == {"text", "empty", "error"}

\* the pending callGemini ends with `answer`: generateArticle returns null
\* when the content is falsy, else writes the article file and returns the
\* article; a failing writeFileSync rejects the call
GeminiRespond(answer) ==
    /\ article.pc = "generating"
    /\ IF ~ContentOk(answer)
       THEN article' = [article EXCEPT !.pc = "returned", !.content = answer,
                                       !.ret = "null"]
       ELSE \E writeOk \in BOOLEAN :
               article' = IF writeOk
                          THEN [article EXCEPT !.pc = "returned", !.content = answer,
                                               !.ret = "article",
                                               !.file = [exists |-> TRUE,
                                                         from |-> article.prompt]]
                          ELSE [article EXCEPT !.pc = "rejected", !.content = answer]
    /\ UNCHANGED <<now, elapsed, hnFile, ghCache, ghLastFetch, axFile, combined, agg,
                   run, started, fetch, briefing>>

-----------------------------------------------------------------------------
(* Specifications *)

StartNow == 6 * HourMs

InitCommon ==
    /\ now = StartNow
    /\ elapsed = 0
    /\ hnFile = NoFile
    /\ ghCache = [set |-> FALSE, items |-> <<>>]
    /\ ghLastFetch = 0
    /\ combined = NoCombined
    /\ agg = [p \in Callers |-> IdleAgg]
    /\ run = [r \in RunIds |-> NoRun]
    /\ axFile = NoFile
    /\ fetch = NoCall
    /\ briefing = NoBriefing
    /\ article = NoArticle

Limits == {2, 30}

\* aggregate called directly while time passes and the caches age
HnAnswersFew == { [kind |-> "throw", stories |-> <<>>],
                  [kind |-> "ok", stories |-> <<NullStory, S_ask>>],
                  [kind |-> "ok", stories |-> <<S_gpt5, S_rust>>] }
GhAnswersFew == { [kind |-> "error", repos |-> <<>>],
                  [kind |-> "noitems", repos |-> <<>>],
                  [kind |-> "ok", repos |-> <<R_gpt, R_rust>>] }

Init ==
    /\ InitCommon
    /\ started = [on |-> FALSE, alive |-> TRUE, strict |-> FALSE, boots |-> 0]

Next ==
    \/ \E d \in AdvanceSteps : Advance(d)
    \/ \E limit \in Limits : DirectCall(limit)
    \/ \E answer \in HnAnswersFew : HnRespond(Direct, answer)
    \/ \E answer \in GhAnswersFew : GhRespond(Direct, answer)

Spec == Init /\ [][Next]_vars

\* aggregate called directly against every answer of the two services, the
\* clock standing still
LimitsItems == {1, 2, 4, 30}

NextItems ==
    \/ \E limit \in LimitsItems : DirectCall(limit)
    \/ \E answer \in HnAnswersFull : HnRespond(Direct, answer)
    \/ \E answer \in GhAnswersFull : GhRespond(Direct, answer)

SpecItems == Init /\ [][NextItems]_vars

\* the scheduler, with the cron callback firing while runs are in flight
HnAnswersSched == { [kind |-> "throw", stories |-> <<>>],
                    [kind |-> "ok", stories |-> <<S_gpt5, S_rust>>] }
GhAnswersSched == { [kind |-> "error", repos |-> <<>>],
                    [kind |-> "ok", repos |-> <<R_gpt>>] }

InitSched ==
    /\ InitCommon
    /\ \E strict \in BOOLEAN :
          started = [on |-> FALSE, alive |-> TRUE, strict |-> strict, boots |-> 0]

SchedSteps == {2 * HourMs, 24 * HourMs}

NextSched ==
    \/ \E d \in SchedSteps : Advance(d)
    \/ StartScheduler
    \/ \E r \in RunIds : CronFire(r)
    \/ \E r \in RunIds, answer \in HnAnswersSched : HnRespond(r, answer)
    \/ \E r \in RunIds, answer \in GhAnswersSched : GhRespond(r, answer)
    \/ ProcessExit

SpecSched == InitSched /\ [][NextSched]_vars

\* the same timeouts inside a scheduled run: the Hacker News request settles,
\* the GitHub request need not
FairnessSched ==
    WF_vars(\E r \in RunIds, answer \in HnAnswersSched : HnRespond(r, answer))

SpecSchedFair == InitSched /\ [][NextSched]_vars /\ FairnessSched

\* the scheduler over several days, both services being down
HnAnswersDaily == { [kind |-> "throw", stories |-> <<>>] }
GhAnswersDaily == { [kind |-> "error", repos |-> <<>>] }

NextDaily ==
    \/ \E d \in SchedSteps : Advance(d)
    \/ StartScheduler
    \/ \E r \in RunIds : CronFire(r)
    \/ \E r \in RunIds, answer \in HnAnswersDaily : HnRespond(r, answer)
    \/ \E r \in RunIds, answer \in GhAnswersDaily : GhRespond(r, answer)
    \/ ProcessExit

SpecDaily == InitSched /\ [][NextDaily]_vars

\* the collectors called one at a time by a client, across a restart
FetchLimits == {1, 2}

HnAnswersFetch == { [kind |-> "throw", stories |-> <<>>],
                    [kind |-> "ok", stories |-> <<NullStory, S_ask>>],
                    [kind |-> "ok", stories |-> <<S_gpt5, S_rust>>] }
GhAnswersFetch == { [kind |-> "error", repos |-> <<>>],
                    [kind |-> "ok", repos |-> <<R_gpt, R_rust>>] }

NextFetch ==
    \/ Advance(20 * MinuteMs)
    \/ \E limit \in FetchLimits : fetchTopStories(limit)
    \/ \E answer \in HnAnswersFetch : HnSettle(answer)
    \/ \E limit \in FetchLimits : fetchTrendingAI(limit)
    \/ \E answer \in GhAnswersFetch : GhSettle(answer)
    \/ \E limit \in FetchLimits : fetchArxiv(limit)
    \/ \E answer \in AxAnswers : AxSettle(answer)
    \/ Restart

SpecFetch == Init /\ [][NextFetch]_vars

\* A request that has a timeout is settled sooner or later: axios is given
\* timeout: 30000 in fetchCategory, and the runtime's fetch gives up on a
\* silent server by its default header and body timeouts.  https.get in
\* fetchTrendingAI sets no timeout and registers only 'error', so nothing
\* forces that request to settle.
FairnessFetch ==
    /\ WF_vars(\E answer \in HnAnswersFetch : HnSettle(answer))
    /\ WF_vars(\E answer \in AxAnswers : AxSettle(answer))

SpecFetchFair == Init /\ [][NextFetch]_vars /\ FairnessFetch

\* the collectors called one at a time against payloads that repeat an entry:
\* the list of top story ids naming a story twice, and two repositories whose
\* owner and name join to the same string (a-b/c and a/b-c)
O_ab == <<"a","-","b">>
O_a  == <<"a">>
N_c  == <<"c">>
N_bc == <<"b","-","c">>

R_abc == [owner |-> O_ab, name |-> N_c, description |-> D_fast,
          language |-> L_rust, stars |-> 7, forks |-> 1, created |-> 0 - 8 * 24 * HourMs]
R_a_bc == [owner |-> O_a, name |-> N_bc, description |-> D_llm,
           language |-> L_py, stars |-> 8, forks |-> 2, created |-> 0 - 8 * 24 * HourMs]

PayloadLimits == {1, 2, 30}

HnAnswersPayload == { [kind |-> "throw", stories |-> <<>>],
                      [kind |-> "ok", stories |-> <<S_gpt5, S_rust>>],
                      [kind |-> "ok", stories |-> <<S_zig, S_zig>>] }
GhAnswersPayload == { [kind |-> "error", repos |-> <<>>],
                      [kind |-> "ok", repos |-> <<R_gpt, R_rust>>],
                      [kind |-> "ok", repos |-> <<R_abc, R_a_bc>>] }

NextPayload ==
    \/ \E limit \in PayloadLimits : fetchTopStories(limit)
    \/ \E answer \in HnAnswersPayload : HnSettle(answer)
    \/ \E limit \in PayloadLimits : fetchTrendingAI(limit)
    \/ \E answer \in GhAnswersPayload : GhSettle(answer)
    \/ \E limit \in PayloadLimits : fetchArxiv(limit)
    \/ \E answer \in AxAnswers : AxSettle(answer)

SpecPayload == Init /\ [][NextPayload]_vars

\* the collectors called one at a time while every cache window runs out
\* between calls
ExpiryLimits == {2}

HnAnswersExpiry == { [kind |-> "throw", stories |-> <<>>],
                     [kind |-> "ok", stories |-> <<S_gpt5, S_rust>>],
                     [kind |-> "ok", stories |-> <<S_zig, S_gpt5, S_rust>>] }
GhAnswersExpiry == { [kind |-> "error", repos |-> <<>>],
                     [kind |-> "ok", repos |-> <<R_gpt, R_rust>>],
                     [kind |-> "ok", repos |-> <<R_rust, R_gpt, R_abc>>] }
AxAnswersExpiry == {
    [kind |-> "ok",
     cats |-> << <<[id |-> 101, published |-> 3], [id |-> 102, published |-> 5]>>,
                 <<[id |-> 101, published |-> 3]>>, <<>>, <<>> >>],
    [kind |-> "ok",
     cats |-> << <<[id |-> 103, published |-> 9]>>, <<>>, <<>>, <<>> >>] }

NextExpiry ==
    \/ Advance(7 * HourMs)
    \/ \E limit \in ExpiryLimits : fetchTopStories(limit)
    \/ \E answer \in HnAnswersExpiry : HnSettle(answer)
    \/ \E limit \in ExpiryLimits : fetchTrendingAI(limit)
    \/ \E answer \in GhAnswersExpiry : GhSettle(answer)
    \/ \E limit \in ExpiryLimits : fetchArxiv(limit)
    \/ \E answer \in AxAnswersExpiry : AxSettle(answer)

SpecExpiry == Init /\ [][NextExpiry]_vars

\* generateBriefing applied to what aggregate returned, with enough stories
\* for a kind to have more items than the highlights take
HnAnswersBriefing == { [kind |-> "throw", stories |-> <<>>],
                       [kind |-> "ok", stories |-> <<S_gpt5, S_rust>>],
                       [kind |-> "ok", stories |-> <<S_zig, S_gpt5, S_gpt5sp, S_rust>>] }
GhAnswersBriefing == { [kind |-> "error", repos |-> <<>>],
                       [kind |-> "ok", repos |-> <<R_gpt, R_rust>>],
                       [kind |-> "ok", repos |-> <<R_abc, R_gpt, R_a_bc, R_rust>>] }

LimitsBriefing == {2, 5, 30}

NextBriefing ==
    \/ \E limit \in LimitsBriefing : DirectCall(limit)
    \/ \E answer \in HnAnswersBriefing : HnRespond(Direct, answer)
    \/ \E answer \in GhAnswersBriefing : GhRespond(Direct, answer)
    \/ BuildBriefing

SpecBriefing == Init /\ [][NextBriefing]_vars

\* generateArticle run on its own, with more stories than the prompt takes
ManyStories ==
    [n \in 1..17 |-> [id |-> 100 + n, title |-> <<"n", "o", " ", Lowers[n]>>,
                      url |-> U_example, score |-> n]]

HnAnswersArticle == { [kind |-> "throw", stories |-> <<>>],
                      [kind |-> "ok", stories |-> <<S_gpt5, S_rust>>],
                      [kind |-> "ok", stories |-> ManyStories] }
GhAnswersArticle == { [kind |-> "error", repos |-> <<>>],
                      [kind |-> "ok", repos |-> <<R_gpt, R_rust>>] }

NextArticle ==
    \/ Advance(20 * MinuteMs)
    \/ GenerateArticle
    \/ \E answer \in HnAnswersArticle : HnRespond(Article, answer)
    \/ \E answer \in GhAnswersArticle : GhRespond(Article, answer)
    \/ \E answer \in GeminiAnswers : GeminiRespond(answer)

SpecArticle == Init /\ [][NextArticle]_vars

\* the two steps of a trigger made one after the other by a caller that hands
\* generateBriefing the items array: aggregate(20) and generateBriefing, then
\* generateArticle(), which takes no argument and calls aggregate(50) itself
PipelineCall ==
    /\ briefing.st = "none" /\ article.pc = "none"
    /\ DirectCall(SCHED_LIMIT)

ArticleAfterBriefing ==
    /\ briefing.st = "built" /\ article.pc = "none"
    /\ GenerateArticle

NextPipeline ==
    \/ Advance(20 * MinuteMs)
    \/ PipelineCall
    \/ \E answer \in HnAnswersSched : HnRespond(Direct, answer)
    \/ \E answer \in GhAnswersSched : GhRespond(Direct, answer)
    \/ BuildBriefing
    \/ ArticleAfterBriefing
    \/ \E answer \in HnAnswersSched : HnRespond(Article, answer)
    \/ \E answer \in GhAnswersSched : GhRespond(Article, answer)
    \/ \E answer \in GeminiAnswers : GeminiRespond(answer)

SpecPipeline == Init /\ [][NextPipeline]_vars

-----------------------------------------------------------------------------
(* Properties *)

RunsInProgress == {r \in RunIds : run[r].pc = "briefing"}

\* C1: at most one pipeline run is in progress at any time (a cron trigger
\* that fires while a run has not finished starts no second run).
C1_AtMostOneRun == Cardinality(RunsInProgress) <= 1


\* a step in which the Hacker News fetch of caller p ends in failure
HnFetchFails(p) ==
    agg[p].hn.st = "pending" /\ agg'[p].hn.st # "pending" /\ agg'[p].hn.src = "failed"

\* a step in which the GitHub fetch of caller p ends in failure (the request
\* errored, the body did not parse, or it was the rate-limit message)
GhFetchFails(p) ==
    agg[p].gh.st = "pending" /\ agg'[p].gh.st # "pending" /\ agg'[p].gh.src = "failed"

\* C2: a cached-fetch call whose network request failed, was rate-limited or
\* returned a malformed payload leaves the cache entry (items and lastFetch)
\* exactly as it was before the call.
C2_FailedFetchKeepsCache ==
    [][\A p \in Callers :
          /\ HnFetchFails(p) => hnFile' = hnFile
          /\ GhFetchFails(p) => (ghCache' = ghCache /\ ghLastFetch' = ghLastFetch)]_vars

\* C3: whenever a cache entry with n > 0 items exists and the fetch fails, the
\* cached fetch returns that entry's items, inside or outside the TTL window.
C3_FailedFetchReturnsCache ==
    [][\A p \in Callers :
          /\ (HnFetchFails(p) /\ Len(hnFile.items) > 0)
                => agg'[p].hn.ret = Slice(hnFile.items, HN_FETCH_LIMIT)
          /\ (GhFetchFails(p) /\ ghCache.set /\ Len(ghCache.items) > 0)
                => agg'[p].gh.ret = Slice(ghCache.items, GH_FETCH_LIMIT)]_vars


\* the invocations that have returned a list
Returned == {p \in Callers : agg[p].st = "done"}

Pairs(s) == {ij \in (1..Len(s)) \X (1..Len(s)) : ij[1] < ij[2]}

RelevantAfterIrrelevant(a, b) == a.aiScore = 0 /\ b.aiScore > 0

\* C4: in every list returned by aggregate, an item with aiScore > 0 appears
\* before every item with aiScore = 0, whatever their importance values.
C4_RelevantFirst ==
    \A p \in Returned : \A ij \in Pairs(agg[p].result) :
        ~RelevantAfterIrrelevant(agg[p].result[ij[1]], agg[p].result[ij[2]])

LowScoreRelevantFirst(a, b) ==
    /\ a.aiScore > 0 /\ Has(a, "score") /\ a.score = 1
    /\ b.aiScore = 0 /\ Has(b, "score") /\ b.score = 1000
    /\ a.importance < b.importance

\* C4 witness: a returned list ranks the item with score 1 and relevance > 0
\* before the item with score 1000 and relevance 0
C4_Witness ==
    \E p \in Returned : \E ij \in Pairs(agg[p].result) :
        LowScoreRelevantFirst(agg[p].result[ij[1]], agg[p].result[ij[2]])

RECURSIVE TrimLeft(_)
TrimLeft(s) == IF s # <<>> /\ Head(s) = " " THEN TrimLeft(Tail(s)) ELSE s

RECURSIVE TrimRight(_)
TrimRight(s) ==
    IF s # <<>> /\ s[Len(s)] = " " THEN TrimRight(SubSeq(s, 1, Len(s) - 1)) ELSE s

\* the key of the specification: lowercase, strip whitespace, truncate
StrippedKey(item) == Slice(TrimLeft(TrimRight(ToLowerCase(item.title))), TITLE_KEY_LEN)

SameStrippedKey(a, b) == StrippedKey(a) = StrippedKey(b)

\* C5: two items whose titles are equal after lowercasing and stripping
\* whitespace are duplicates, and only one of them appears in the result.
C5_StrippedTitlesDeduplicated ==
    \A p \in Returned : \A ij \in Pairs(agg[p].result) :
        ~SameStrippedKey(agg[p].result[ij[1]], agg[p].result[ij[2]])

\* the merged input of a returned invocation, in merge order
MergedInput(a) == MergeSources(a.results[1], a.results[2])

\* C6: among merged items that share a dedup key, the one kept in the result
\* is the first occurrence in merge order (HN before GitHub, each source in
\* the order it returned).
C6_FirstOccurrenceKept ==
    \A p \in Returned :
        LET in == MergedInput(agg[p])
        IN  \A k \in 1..Len(agg[p].result) :
                \E i \in 1..Len(in) :
                    /\ in[i].id = agg[p].result[k].id
                    /\ \A j \in 1..(i - 1) : TitleKey(in[j]) # TitleKey(in[i])


Min(a, b) == IF a < b THEN a ELSE b

KeysOf(s) == {TitleKey(s[i]) : i \in 1..Len(s)}

\* the source contributed nothing: its fetch failed and nothing was cached
HnTotalFailure(a) == a.hn.src = "failed" /\ a.hn.ret = <<>>
GhTotalFailure(a) == a.gh.src = "failed" /\ a.gh.ret = <<>>
HnSucceeded(a) == a.hn.src \in {"net", "cache"}
GhSucceeded(a) == a.gh.src \in {"net", "cache"}

\* the result holds items of the source `type` only, one for each title key
\* that source returned, up to the limit
OnlyFrom(a, type, ret) ==
    /\ \A k \in 1..Len(a.result) :
          /\ a.result[k].type = type
          /\ \E i \in 1..Len(ret) : ret[i].id = a.result[k].id
    /\ Len(a.result) = Min(a.limit, Cardinality(KeysOf(ret)))

\* C7: when one source fails completely (fetch error, nothing cached) while
\* the other succeeds, aggregate does not throw because of it, returns the
\* other source's items, and the failing source's count in stats is 0.
C7_PartialFailureTolerated ==
    \A p \in Callers :
        LET a == agg[p]
        IN  /\ (a.st = "threw" /\ (HnTotalFailure(a) \/ GhTotalFailure(a)))
                  => a.err = "write"
            /\ (a.st = "done" /\ HnTotalFailure(a) /\ GhSucceeded(a))
                  => (AggStats(a).hn = 0 /\ OnlyFrom(a, "github", a.gh.ret))
            /\ (a.st = "done" /\ GhTotalFailure(a) /\ HnSucceeded(a))
                  => (AggStats(a).github = 0 /\ OnlyFrom(a, "hn", a.hn.ret))

\* C7 witness: Hacker News failed with nothing cached, GitHub answered, and
\* aggregate returned GitHub's items
C7_Witness ==
    \E p \in Returned :
        /\ HnTotalFailure(agg[p]) /\ agg[p].gh.src = "net"
        /\ Len(agg[p].result) > 0 /\ AggStats(agg[p]).hn = 0

\* C8: two aggregate calls with the same limit, both served from caches that
\* no fetch touched in between, return the same list in the same order.
C8_FrozenCachesSameOutput ==
    [][\A p \in Callers :
          (FromCache(agg[p]) /\ FromCache(agg'[p]) /\ agg'[p].limit = agg[p].limit)
              => agg'[p].result = agg[p].result]_vars

\* C8 witness: a second call in a row served from both caches, at the same
\* limit, returning several items
C8_Witness ==
    \E p \in Returned :
        agg[p].again /\ FromCache(agg[p]) /\ Len(agg[p].result) >= 2

\* C9: the returned list is the one computed from what each source returned,
\* Hacker News first, whichever fetch settled first.
C9_OrderIndependent ==
    \A p \in Returned :
        agg[p].result =
            AggregateResult(MergeSources(agg[p].hn.ret, agg[p].gh.ret), agg[p].limit)

\* C9 witness: GitHub settled before Hacker News, both with items
C9_Witness ==
    \E p \in Returned :
        /\ agg[p].order = <<"gh", "hn">>
        /\ agg[p].hn.ret # <<>> /\ agg[p].gh.ret # <<>>

InList(x, s) == \E k \in 1..Len(s) : s[k] = x

\* the scored input of a returned invocation, in merge order
ScoredInput(a) == ScoreItems(MergedInput(a))

RightLength(a) == Len(a.result) = Min(a.limit, Cardinality(KeysOf(ScoredInput(a))))

SortsBeforeNone(x, s) == \A k \in 1..Len(s) : Compare(x, s[k]) >= 0

\* C10 as claimed: aggregate(limit) returns exactly min(limit, number of
\* distinct-key items) items, and no item left out of the result would sort
\* strictly before an item that is in the result.
C10_TopRankedAsClaimed ==
    \A p \in Returned :
        LET a == agg[p]
            in == ScoredInput(a)
        IN  /\ RightLength(a)
            /\ \A i \in 1..Len(in) :
                  ~InList(in[i], a.result) => SortsBeforeNone(in[i], a.result)

\* x is a repeated title key whose copy in the result sorts no later than x
DuplicateOfReturned(x, s) ==
    \E k \in 1..Len(s) : TitleKey(s[k]) = TitleKey(x) /\ Compare(x, s[k]) >= 0

\* C10 amended: aggregate(limit) returns exactly min(limit, number of distinct
\* title keys) items, and every item left out either repeats the title key of
\* a returned item that sorts no later than it, or sorts strictly before no
\* returned item.
C10_TopRankedAmongKeys ==
    \A p \in Returned :
        LET a == agg[p]
            in == ScoredInput(a)
        IN  /\ RightLength(a)
            /\ \A i \in 1..Len(in) :
                  ~InList(in[i], a.result) =>
                      \/ DuplicateOfReturned(in[i], a.result)
                      \/ SortsBeforeNone(in[i], a.result)

\* C10 witness: the limit cut the list, and a repeated title key was dropped
\* although it sorts strictly before a returned item
C10_Witness ==
    \E p \in Returned :
        LET a == agg[p]
            in == ScoredInput(a)
        IN  /\ Len(a.result) = a.limit
            /\ a.limit < Cardinality(KeysOf(in))
            /\ \E i \in 1..Len(in) :
                  /\ ~InList(in[i], a.result)
                  /\ DuplicateOfReturned(in[i], a.result)
                  /\ ~SortsBeforeNone(in[i], a.result)


\* the popularity of an item: the points of a story, the stars of a repository
Popularity(item) == IF item.type = "hn" THEN item.score ELSE item.stars

\* C11: for every item returned by aggregate, importance is popularity times
\* the weight of its kind (1.2 hn, 1.3 github), times 1.5 exactly when the
\* aiScore aggregate gave that item is > 0 (importance is held times 10000).
C11_ImportanceFormula ==
    \A p \in Returned : \A k \in 1..Len(agg[p].result) :
        LET item == agg[p].result[k]
        IN  item.importance =
                Popularity(item) * TypeWeight100(item.type)
                    * (IF item.aiScore > 0 THEN 150 ELSE 100)


\* a step in which the client calls collector k
Called(k) ==
    fetch'.seq # fetch.seq /\ fetch'.kind = k /\ started'.boots = started.boots

\* an entry exists and now - lastFetch is smaller than the source's window
HnInWindow == hnFile.exists /\ (now - Num(hnFile.lastFetch)) < HN_CACHE_DURATION
GhInWindow == ghCache.set /\ (now - ghLastFetch) < GH_CACHE_DURATION
AxInWindow == axFile.exists /\ (now - Num(axFile.lastFetch)) < AX_WINDOW

\* the call returned the first n of items at once, without a request
ServedNow(items, n) ==
    fetch'.st = "settled" /\ fetch'.src = "cache" /\ fetch'.ret = Slice(items, n)

\* C12 as claimed: for every source, a call made while now - lastFetch is
\* smaller than the window returns the entry's items without a network
\* request and without modifying the entry.
C12_InWindowServedAsClaimed ==
    [][/\ (Called("hn") /\ HnInWindow)
            => (ServedNow(hnFile.items, fetch'.limit) /\ hnFile' = hnFile)
       /\ (Called("gh") /\ GhInWindow)
            => /\ ServedNow(ghCache.items, fetch'.limit)
               /\ ghCache' = ghCache /\ ghLastFetch' = ghLastFetch
       /\ (Called("ax") /\ AxInWindow)
            => /\ ServedNow(axFile.items, fetch'.limit * AX_CATEGORIES)
               /\ axFile' = axFile]_vars

\* C12 amended: a call made while now - lastFetch is smaller than the window
\* returns the entry's items without a network request and without modifying
\* the entry, for Hacker News only when the entry holds at least one item.
C12_InWindowServed ==
    [][/\ (Called("hn") /\ HnInWindow /\ Len(hnFile.items) > 0)
            => (ServedNow(hnFile.items, fetch'.limit) /\ hnFile' = hnFile)
       /\ (Called("gh") /\ GhInWindow)
            => /\ ServedNow(ghCache.items, fetch'.limit)
               /\ ghCache' = ghCache /\ ghLastFetch' = ghLastFetch
       /\ (Called("ax") /\ AxInWindow)
            => /\ ServedNow(axFile.items, fetch'.limit * AX_CATEGORIES)
               /\ axFile' = axFile]_vars

\* C12 witness: a Hacker News call served from an entry fetched 20 minutes
\* before, while the arXiv and GitHub entries exist as well
C12_Witness ==
    /\ fetch.kind = "hn" /\ fetch.src = "cache" /\ fetch.ret # <<>>
    /\ hnFile.lastFetch # Null /\ now - hnFile.lastFetch > 0
    /\ axFile.exists /\ ghCache.set


\* a step in which the pending call of collector k ends
Ended(k) ==
    /\ fetch.kind = k /\ fetch.st = "pending"
    /\ fetch'.kind = k /\ fetch'.st \in {"settled", "rejected"}

\* C13: a cached fetch propagates an error to its caller exactly when the
\* underlying fetch fails and no cache entry exists at all (it does not
\* return an empty list then).
C13_ErrorExactlyWithoutCache ==
    [][/\ Ended("hn") =>
            (fetch'.st = "rejected" <=> (fetch'.src = "failed" /\ ~hnFile.exists))
       /\ Ended("gh") =>
            (fetch'.st = "rejected" <=> (fetch'.src = "failed" /\ ~ghCache.set))]_vars


\* C14: every source's cache entry survives a restart of the process, so that
\* a fetch made afterwards inside the window is still served from it.
C14_CacheSurvivesRestart ==
    [][started'.boots # started.boots =>
          /\ hnFile' = hnFile /\ axFile' = axFile
          /\ ghCache' = ghCache /\ ghLastFetch' = ghLastFetch]_vars


\* C20: every call of a source's fetch with a limit returns at most limit
\* items, on every path (fresh fetch, cache hit, fallback after a failure).
C20_AtMostLimit ==
    (fetch.kind \in {"hn", "gh"} /\ fetch.st = "settled")
        => Len(fetch.ret) <= fetch.limit


\* C19: every source fetch terminates: a request that is under way is
\* eventually over, by an answer, an error or a timeout.
C19_FetchTerminates == (fetch.st = "pending") ~> (fetch.st # "pending")


\* C15: every run that starts eventually finishes, successfully or not, so
\* that the scheduler is idle again.
C15_RunFinishes ==
    \A r \in RunIds : (run[r].pc = "briefing") ~> (run[r].pc \in {"rejected", "done"})


\* C17: a run whose aggregate(20) has returned successfully builds a Briefing
\* from the returned value without an error and has written it to the files
\* of the day.
C17_ReturnedAggregateIsWritten ==
    \A r \in RunIds : agg[r].st = "done" => (run[r].pc # "rejected" /\ run[r].wrote)

\* C18: a run that failed in its aggregation or briefing step takes only
\* itself down: the scheduler process stays alive for the next daily trigger.
C18_FailureFatalToRunOnly ==
    (\E r \in RunIds : run[r].pc = "rejected") => started.alive


\* C21: no list returned by one call of a collector holds two items with the
\* same id.
C21_UniqueIdsPerCall ==
    fetch.st = "settled"
        => \A ij \in Pairs(fetch.ret) : fetch.ret[ij[1]].id # fetch.ret[ij[2]].id


\* the pre-score the GitHub collector gave the item (times 1)
PreScore(item) == GhCalculateAIScore(item.description \o Space \o item.language)

\* C22: the relevance of a GitHub item in aggregate's output is the
\* collector's pre-score plus the aggregator's keyword score (aiScore is kept
\* times 2).
C22_PreScoreAdded ==
    \A p \in Returned : \A k \in 1..Len(agg[p].result) :
        LET item == agg[p].result[k]
        IN  item.type = "github"
                => item.aiScore = 2 * PreScore(item) + calculateAIScore(item.text)


HnWritersInFlight == {p \in Callers : agg[p].hn.st = "pending"}
GhWritersInFlight == {p \in Callers : agg[p].gh.st = "pending"}
CombinedWritersInFlight == {p \in Callers : agg[p].st = "waiting"}

\* C23: no file or cache slot is written while a second fetch or aggregation
\* that writes the same one is in flight.
C23_NoTwoWritersInFlight ==
    [][ /\ (hnFile' # hnFile => Cardinality(HnWritersInFlight) <= 1)
        /\ (ghCache' # ghCache => Cardinality(GhWritersInFlight) <= 1)
        /\ (combined' # combined => Cardinality(CombinedWritersInFlight) <= 1) ]_vars


\* C24: within one call of aggregate both fetches are started before either
\* is awaited, nothing is merged while one of them is still out, and a list
\* is returned only when both have settled.
C24_FanOutFanIn ==
    \A p \in Callers :
        /\ agg[p].st # "idle" => (agg[p].hn.st # "none" /\ agg[p].gh.st # "none")
        /\ agg[p].st = "waiting"
              => /\ agg[p].result = <<>>
                 /\ (agg[p].hn.st = "pending" \/ agg[p].gh.st = "pending")
        /\ agg[p].st = "done"
              => (agg[p].hn.st = "settled" /\ agg[p].gh.st = "settled")

\* both fetches went to the network, the GitHub answer came first, and the
\* returned list has items of both
C24_Witness ==
    /\ agg[Direct].st = "done"
    /\ agg[Direct].order = <<"gh", "hn">>
    /\ agg[Direct].hn.src = "net" /\ agg[Direct].gh.src = "net"
    /\ \E k \in 1..Len(agg[Direct].result) : agg[Direct].result[k].type = "hn"
    /\ \E k \in 1..Len(agg[Direct].result) : agg[Direct].result[k].type = "github"


RunStarts(r) == run[r].pc = "none" /\ run'[r].pc # "none"
SchedulerStarts == ~started.on /\ started'.on

KindCount(items, kind) == Cardinality({k \in 1..Len(items) : items[k].type = kind})

\* the position in items of the j-th item of the kind
NthOfKind(items, kind, j) ==
    CHOOSE k \in 1..Len(items) :
        /\ items[k].type = kind
        /\ Cardinality({m \in 1..k : items[m].type = kind}) = j

\* list holds the first n items of the kind, in the order of items
FirstOfKind(list, items, kind, n) ==
    /\ Len(list) = n
    /\ \A j \in 1..Len(list) : list[j] = items[NthOfKind(items, kind, j)]

\* C26: generateBriefing groups its input by kind, the highlights of a kind
\* are its first min(3, n) items in input order, and the input list is left
\* as it was.
C26_HighlightsArePrefixes ==
    briefing.st = "built"
        => LET items == briefing.input
               nHn == KindCount(items, "hn")
               nGh == KindCount(items, "github")
           IN  /\ FirstOfKind(briefing.out.summary.byType.hn, items, "hn", nHn)
               /\ FirstOfKind(briefing.out.summary.byType.github, items, "github", nGh)
               /\ FirstOfKind(briefing.out.topHN, items, "hn", Min(3, nHn))
               /\ FirstOfKind(briefing.out.topGitHub, items, "github", Min(3, nGh))
               /\ briefing.items = items

\* a briefing built from a list with more than three Hacker News items and
\* fewer than three GitHub items
C26_Witness ==
    /\ briefing.st = "built"
    /\ KindCount(briefing.input, "hn") > 3
    /\ KindCount(briefing.input, "github") \in {1, 2}
    /\ Len(briefing.out.topHN) = 3


RelevantCount(items) == Cardinality({k \in 1..Len(items) : items[k].aiScore > 0})

\* C27: the stats aggregate returns describe the returned list: total is its
\* length, hn and github count its items of each kind and sum to total, and
\* aiRelated counts its items with aiScore > 0.
C27_StatsDescribeResult ==
    \A p \in Returned :
        LET stats == AggStats(agg[p])
            result == agg[p].result
        IN  /\ stats.total = Len(result)
            /\ stats.hn + stats.github = stats.total
            /\ stats.hn = KindCount(result, "hn")
            /\ stats.github = KindCount(result, "github")
            /\ stats.aiRelated = RelevantCount(result)

\* a returned list that was cut at the limit, has items of both kinds, and
\* relevant as well as irrelevant items
C27_Witness ==
    /\ agg[Direct].st = "done"
    /\ Len(agg[Direct].result) = agg[Direct].limit
    /\ Len(UniqueItems(MergeSources(agg[Direct].results[1], agg[Direct].results[2])))
          > agg[Direct].limit
    /\ KindCount(agg[Direct].result, "hn") > 0
    /\ KindCount(agg[Direct].result, "github") > 0
    /\ RelevantCount(agg[Direct].result) \in 1..(Len(agg[Direct].result) - 1)


\* C28: a GitHub item's popularity is its star count: in aggregate's output a
\* repository with stars has importance > 0, and of two relevant GitHub items
\* the one with more stars is not ranked below the other.
C28_StarsFeedImportance ==
    \A p \in Returned :
        LET result == agg[p].result
        IN  /\ \A k \in 1..Len(result) :
                  (result[k].type = "github" /\ result[k].stars > 0)
                      => result[k].importance > 0
            /\ \A ij \in Pairs(result) :
                  LET a == result[ij[1]]
                      b == result[ij[2]]
                  IN  (a.type = "github" /\ b.type = "github"
                          /\ a.aiScore > 0 /\ b.aiScore > 0)
                          => a.stars >= b.stars


HnFresh(limit) ==
    {HnFormat(answer.stories, limit).items : answer \in HnAnswersExpiry}
GhFresh(limit, t) ==
    {[i \in 1..Len(Slice(answer.repos, limit)) |-> GhItem(answer.repos[i], t)] :
        answer \in GhAnswersExpiry}
AxFresh(limit) ==
    {AxUnique(AxSort(AxFlat(answer.cats, limit)), 1, {}) : answer \in AxAnswersExpiry}

\* C29: a call that found no valid cache entry and whose fetch succeeds puts
\* exactly the items it fetched in the entry's place, with lastFetch the
\* timestamp taken when the call began, and returns those items.
C29_RefetchReplacesEntry ==
    [][ /\ (Ended("hn") /\ fetch'.src = "net")
            => /\ hnFile' = [exists |-> TRUE, items |-> fetch'.ret, lastFetch |-> fetch.t]
               /\ fetch'.ret \in HnFresh(fetch.limit)
        /\ (Ended("gh") /\ fetch'.src = "net")
            => /\ ghCache' = [set |-> TRUE, items |-> fetch'.ret]
               /\ ghLastFetch' = fetch.t
               /\ fetch'.ret \in GhFresh(fetch.limit, now)
        /\ (Ended("ax") /\ fetch'.src = "net")
            => /\ axFile' = [exists |-> TRUE, items |-> fetch'.ret, lastFetch |-> fetch.t]
               /\ fetch'.ret \in AxFresh(fetch.limit) ]_vars

\* a call made after the window had run out has put new items in the place
\* of an entry with other items, the answer arriving later than the call began
C29_Witness ==
    /\ fetch.kind = "hn" /\ fetch.src = "net" /\ fetch.replaced
    /\ hnFile.items = fetch.ret
    /\ hnFile.lastFetch < now
    /\ ghCache.set /\ ghLastFetch > StartNow
    /\ axFile.exists /\ axFile.lastFetch > StartNow


\* C30: the list put into the prompt of the text-generation call has at most
\* 15 entries, and they are the first entries of the list aggregate returned,
\* in its order, however many items that list has.
C30_PromptIsBoundedPrefix ==
    article.pc = "generating" =>
        LET items == agg[Article].result
        IN  /\ agg[Article].st = "done"
            /\ Len(article.prompt) <= 15
            /\ Len(article.prompt) = Min(15, Len(items))
            /\ \A k \in 1..Len(article.prompt) :
                   /\ article.prompt[k].idx = k
                   /\ article.prompt[k].title = Slice(items[k].title, 80)

\* the text generation has been called with 15 entries while aggregate had
\* returned more, from both sources
C30_Witness ==
    /\ article.pc = "generating"
    /\ Len(agg[Article].result) > 15
    /\ Len(article.prompt) = 15
    /\ \E i \in 1..15 : agg[Article].result[i].type = "github"
    /\ \E i \in 16..Len(agg[Article].result) : agg[Article].result[i].type = "hn"


\* the items both fetches of invocation a resolved to, merged as aggregate
\* merges them
MergedOf(a) == MergeSources(a.results[1], a.results[2])

\* C31: no list returned by aggregate holds two items whose titles, lowercased
\* and cut to 60 characters, are equal.
C31_NoRepeatedKey ==
    \A p \in Callers :
        agg[p].st = "done" =>
            \A i, j \in 1..Len(agg[p].result) :
                i # j => Slice(ToLowerCase(agg[p].result[i].title), 60)
                             # Slice(ToLowerCase(agg[p].result[j].title), 60)

\* aggregate returned a list after merging two items whose titles differ in
\* case only, and the limit was not what removed one of them
C31_Witness ==
    /\ agg[Direct].st = "done"
    /\ Len(agg[Direct].result) < agg[Direct].limit
    /\ \E i, j \in 1..Len(MergedOf(agg[Direct])) :
           /\ i # j
           /\ MergedOf(agg[Direct])[i].title # MergedOf(agg[Direct])[j].title
           /\ ToLowerCase(MergedOf(agg[Direct])[i].title)
                  = ToLowerCase(MergedOf(agg[Direct])[j].title)


\* the merged items of invocation a with their scores, in merge order
ScoredOf(a) == ScoreItems(MergedOf(a))

\* whether position i of the scored list s goes before position j under the
\* comparator, merge order deciding between equals
RanksBefore(s, i, j) ==
    \/ Compare(s[i], s[j]) < 0
    \/ Compare(s[i], s[j]) = 0 /\ i < j

\* the position among those of s sharing the title key of position i that goes
\* before all the others
IsSurvivor(s, i) ==
    \A j \in 1..Len(s) :
        (j # i /\ TitleKey(s[j]) = TitleKey(s[i])) => RanksBefore(s, i, j)

\* C32: of the merged items that share a title key, the one aggregate keeps
\* is the one the comparator puts first (merge order deciding between equals),
\* so no item of the result ranks below a dropped item with its key.
C32_SurvivorRanksFirst ==
    \A p \in Callers :
        agg[p].st = "done" =>
            LET s == ScoredOf(agg[p])
            IN  /\ \A k \in 1..Len(agg[p].result) :
                       \E i \in 1..Len(s) : s[i] = agg[p].result[k] /\ IsSurvivor(s, i)
                /\ \A k \in 1..Len(agg[p].result), j \in 1..Len(s) :
                       TitleKey(s[j]) = TitleKey(agg[p].result[k])
                           => Compare(agg[p].result[k], s[j]) <= 0

\* aggregate kept, of two merged items with one title key, the one merged
\* later, and dropped the earlier one
C32_Witness ==
    /\ agg[Direct].st = "done"
    /\ LET s == ScoredOf(agg[Direct])
       IN  \E i, j \in 1..Len(s) :
               /\ i < j /\ TitleKey(s[i]) = TitleKey(s[j])
               /\ Compare(s[j], s[i]) < 0
               /\ \E k \in 1..Len(agg[Direct].result) : agg[Direct].result[k] = s[j]
               /\ \A k \in 1..Len(agg[Direct].result) : agg[Direct].result[k] # s[i]


\* C33: the lastFetch kept in the Hacker News cache file never goes down, even
\* when calls of fetchTopStories overlap: a call that began earlier and ends
\* later does not put its older timestamp over a newer entry.
C33_LastFetchNeverDecreases ==
    [][Num(hnFile'.lastFetch) >= Num(hnFile.lastFetch)]_vars


\* a step in which a GitHub request, or a Hacker News request, of some
\* invocation of aggregate ends
GhRequestEnds == \E p \in Callers : agg[p].gh.st = "pending" /\ agg'[p].gh.st # "pending"
HnRequestEnds == \E p \in Callers : agg[p].hn.st = "pending" /\ agg'[p].hn.st # "pending"

\* C34: aggregate leaves the items of the GitHub in-memory cache and of the
\* Hacker News cache file as they were: they change only in a step that ends
\* a request, and a call served from both caches changes neither.
C34_AggregateLeavesCaches ==
    [][ /\ ghCache'.items # ghCache.items => GhRequestEnds
        /\ hnFile'.items # hnFile.items => HnRequestEnds
        /\ (agg[Direct].st # "waiting" /\ FromCache(agg'[Direct]))
               => /\ ghCache' = ghCache /\ ghLastFetch' = ghLastFetch
                  /\ hnFile' = hnFile ]_vars

\* a call was served from both caches and returned items of both kinds, which
\* carry the fields aggregate adds while the cached GitHub items do not
C34_Witness ==
    /\ FromCache(agg[Direct])
    /\ \E k \in 1..Len(agg[Direct].result) : agg[Direct].result[k].type = "hn"
    /\ \E k \in 1..Len(agg[Direct].result) :
           /\ agg[Direct].result[k].type = "github"
           /\ Has(agg[Direct].result[k], "domain")
    /\ ghCache.items # <<>>
    /\ \A i \in 1..Len(ghCache.items) : ~Has(ghCache.items[i], "domain")


\* C35: when callGemini comes back with null (or with an empty content)
\* generateArticle returns null and the day's article file stays as it was,
\* absent or with its earlier text; the file is written only in a call whose
\* generation returned text.
C35_NoArticleWithoutText ==
    [][ /\ article'.file # article.file
            => /\ article.pc = "generating"
               /\ article'.content = "text" /\ article'.ret = "article"
        /\ (article.pc = "generating" /\ article'.content \in {"empty", "error"})
            => /\ article'.file = article.file
               /\ article'.pc = "returned" /\ article'.ret = "null" ]_vars

\* a call whose generation failed has returned null beside the article file
\* of an earlier call, which was generated from another news list
C35_Witness ==
    /\ article.pc = "returned" /\ article.content = "error" /\ article.ret = "null"
    /\ article.file.exists
    /\ article.file.from # article.prompt
    /\ article.prompt # <<>>


\* C36: the article step of a trigger starts only out of that trigger's
\* briefing step and only when the briefing files were written; a trigger
\* whose briefing step threw never reaches its article step.
C36_ArticleOnlyAfterBriefing ==
    [][\A r \in RunIds :
          /\ (run'[r].pc = "article" /\ run[r].pc # "article")
                 => (run[r].pc = "briefing" /\ run'[r].wrote)
          /\ run[r].pc = "rejected" => run'[r].pc \in {"rejected", "none"}]_vars

\* the briefing steps of the eager run and of a run fired by cron both threw
\* after their aggregate had returned, and neither run is at its article step
C36_Witness ==
    /\ run[0].pc = "rejected" /\ agg[0].st = "done" /\ ~run[0].wrote
    /\ run[1].pc = "rejected" /\ agg[1].st = "done" /\ ~run[1].wrote


C38_EmptyEntryNeverServed ==
    [][Called("hn") =>
          /\ Len(hnFile.items) = 0
                 => (fetch'.st = "pending" /\ fetch'.src = "none")
          /\ (Len(hnFile.items) > 0 /\ now - Num(hnFile.lastFetch) < 30 * 60 * 1000)
                 => /\ fetch'.st = "settled" /\ fetch'.src = "cache"
                    /\ fetch'.ret = Slice(hnFile.items, fetch'.limit)
          /\ fetch'.src = "cache" => fetch'.ret # <<>>]_vars

\* a call has sent its requests although the file holds an entry, without
\* items, written 20 minutes before
C38_Witness ==
    /\ fetch.kind = "hn" /\ fetch.st = "pending"
    /\ hnFile.exists /\ hnFile.items = <<>>
    /\ hnFile.lastFetch # Null
    /\ fetch.t - hnFile.lastFetch = 20 * 60 * 1000

====
